---- MODULE Spec2Model ----
(***************************************************************************)
(* CLAM / CAKES: divisive hierarchical clustering of a metric space, the   *)
(* depth-first reordering of the dataset, and the clustered range (RNN)    *)
(* and k-nearest-neighbour (KNN) searches over the resulting tree.         *)
(*                                                                         *)
(* Instances are identified by the column they are stored in (0 .. n-1).   *)
(* The metric is an arbitrary finite (pseudo-)metric with integer values,  *)
(* drawn in Init; a query is given by its distances to the n columns.      *)
(* Search radii are fixed-point numbers in units of 1/Micro, so that the   *)
(* 1e-6 of the base KNN radius is exactly one unit.                        *)
(***************************************************************************)
EXTENDS Integers, Sequences, FiniteSets, TLC

\* ------------------------------------------------------------------ bounds
\* Largest dataset cardinality drawn in Init.
MaxCard == 3
\* Largest distance between two instances, or between the query and one.
MaxDist == 3
\* Largest search radius handed to a range search.
MaxRadius == 3
\* Largest dataset cardinality of the dataset-only specification.
MaxPermCard == 5
\* Number of depth_first_reorder calls that are followed.
MaxReorders == 2
\* The growth factors tried for a non-trivial lfd are 1 + j/GrowthSteps.
GrowthSteps == 2
\* Longest history handed to Cluster::name on its own.
MaxHistory == 7

\* Instances of the dataset under the distance cache.
CachePoints == 3

\* Instances of the dataset searched in batches, and queries of one batch.
BatchPoints == 3

MaxQueries == 2

\* Instances of the dataset partitioned under every schedule.
PartitionPoints == 4

\* Instances of the dataset under the range searches.
RangePoints == 3

\* Instances of the dataset under the fair partition.
FairPoints == 3

\* Iterations of the growth loop of singular_knn that are followed.
MaxGrowths == 3

\* --------------------------------------------------------- program constants
\* 1e-6 of `base_knn_radius` is one unit: radii are counted in 1/Micro.
Micro == 1000000
\* `factor` of CAKES::new for fewer than 1_000_000 instances.
BaseFactor == 100

VARIABLES
    n,                  \* cardinality of the dataset
    dist,               \* the metric on the columns: [UPairs(n) -> 0..MaxDist]
    criteria,           \* the partition criteria: [max_depth, min_cardinality]
    recursive,          \* the `recursive` argument of Cluster::partition
    tree,               \* history -> cluster
    pending,            \* histories of clusters whose partition() call is forked and not yet run
    status,             \* "ok", or "panicked" once a panic!/assert! has fired
    reordered_indices,  \* ArrowIndices::reordered_indices: position -> column
    reorders,           \* number of depth_first_reorder calls so far
    facade,             \* CAKES::build: "new", "built" or "panicked"
    search,             \* the search in progress or its result
    cache,              \* Space::cache: key <<a, b>> -> stored distance
    calls,              \* the Space::one_to_one calls in flight, one per thread
    batch               \* the batch search in flight: its queries, tasks and output

vars == <<n, dist, criteria, recursive, tree, pending, status, reordered_indices, reorders, facade, search,
          cache, calls, batch>>

\* ------------------------------------------------------------------ helpers
UPairs(m) == {p \in (0 .. m - 1) \X (0 .. m - 1) : p[1] < p[2]}

\* The value of the metric on two columns.
Metric(d, x, y) == IF x = y THEN 0 ELSE IF x < y THEN d[<<x, y>>] ELSE d[<<y, x>>]

IsMetric(m, d) ==
    \A x \in 0 .. m - 1 : \A y \in 0 .. m - 1 : \A z \in 0 .. m - 1 :
        Metric(d, x, z) <= Metric(d, x, y) + Metric(d, y, z)

Metrics(m) == {d \in [UPairs(m) -> 0 .. MaxDist] : IsMetric(m, d)}

\* The distances of a query to the columns that keep the triangle inequality.
IsQuery(m, d, q) ==
    \A x \in 0 .. m - 1 : \A y \in 0 .. m - 1 :
        /\ Metric(d, x, y) <= q[x] + q[y]
        /\ q[x] <= q[y] + Metric(d, x, y)

Queries(m, d) == {q \in [0 .. m - 1 -> 0 .. MaxDist] : IsQuery(m, d, q)}

Range(s) == {s[i] : i \in 1 .. Len(s)}

RECURSIVE SumSeq(_)
SumSeq(s) == IF s = <<>> THEN 0 ELSE Head(s) + SumSeq(Tail(s))

RECURSIVE Flatten(_)
Flatten(ss) == IF ss = <<>> THEN <<>> ELSE Head(ss) \o Flatten(Tail(ss))

\* The elements of s at the positions in P, in order.
RECURSIVE PickSeq(_, _, _)
PickSeq(s, P, p) ==
    IF p > Len(s) THEN <<>>
    ELSE (IF p \in P THEN <<s[p]>> ELSE <<>>) \o PickSeq(s, P, p + 1)

Identity(m) == [i \in 0 .. m - 1 |-> i]

RECURSIVE ArgMinFold(_, _, _)
ArgMinFold(values, i, acc) ==
    IF i > Len(values) THEN acc
    ELSE CHOOSE r \in {ArgMinFold(values, i + 1, next) :
                           next \in {IF values[i] < acc[2] THEN <<i, values[i]>> ELSE acc}} : TRUE

\* helpers::arg_min: position (from 1) and value of the first minimum.
arg_min(values) == CHOOSE r \in {ArgMinFold(v, 1, <<1, v[1]>>) : v \in {values}} : TRUE

RECURSIVE ArgMaxFold(_, _, _)
ArgMaxFold(values, i, acc) ==
    IF i > Len(values) THEN acc
    ELSE CHOOSE r \in {ArgMaxFold(values, i + 1, next) :
                           next \in {IF values[i] > acc[2] THEN <<i, values[i]>> ELSE acc}} : TRUE

\* helpers::arg_max: position (from 1) and value of the first maximum.
arg_max(values) == CHOOSE r \in {ArgMaxFold(v, 1, <<1, v[1]>>) : v \in {values}} : TRUE

\* ------------------------------------------------------------------ dataset
\* BatchedArrowReader::get: the column found at a position.
get(ri, index) == ri[index]

\* Dataset::one_to_one: the metric on the instances found at two positions.
one_to_one(d, ri, left, right) == Metric(d, get(ri, left), get(ri, right))

\* Space::one_to_many.
one_to_many(d, ri, left, right) == [p \in 1 .. Len(right) |-> one_to_one(d, ri, left, right[p])]

\* Dataset::query_to_one: q holds the distance of the query to every column.
query_to_one(q, ri, index) == q[get(ri, index)]

\* Dataset::swap
swap(ri, i, j) == [ri EXCEPT ![i] = ri[j], ![j] = ri[i]]

\* Dataset::set_reordered_indices
set_reordered_indices(ri, indices) == [i \in DOMAIN ri |-> indices[i + 1]]

\* Dataset::get_reordered_index
get_reordered_index(ri, i) == ri[i]

\* ------------------------------------------------------------------ cluster
Root == <<1>>
\* partition_duo pushes two bits per level: 00 for alpha, 01 for bravo.
a_history(h) == h \o <<0, 0>>
b_history(h) == h \o <<0, 1>>

\* Cluster::depth
depth(h) == (Len(h) - 1) \div 2

\* The lowercase hex digits of format!("{s:01x}").
HexDigits == <<"0", "1", "2", "3", "4", "5", "6", "7", "8", "9", "a", "b", "c", "d", "e", "f">>

\* u8::from_str_radix of four bits, most significant first, as one hex digit.
nibble(bits, p) == HexDigits[8 * bits[p] + 4 * bits[p + 1] + 2 * bits[p + 2] + bits[p + 3] + 1]

\* chunks_exact(4) of the bits, each chunk rendered as a hex digit; bits
\* that do not fill a chunk are dropped.
hex_chunks(bits) == [c \in 1 .. Len(bits) \div 4 |-> nibble(bits, 4 * (c - 1) + 1)]

\* Cluster::name: `padding = 4 - d % 4` zero bits before the history.
name(h) ==
    LET d == Len(h)
        padding == 4 - (d % 4)
    IN  hex_chunks([p \in 1 .. padding |-> 0] \o h)

\* `naive_radius < EPSILON` for integer distances.
BelowEpsilon(r) == r = 0

\* The geometric median of Cluster::new: the sample is all of `indices`
\* below SUB_SAMPLE_LIMIT; ties go to the first.
median(d, ri, indices) ==
    LET sample_distances ==
            [p \in 1 .. Len(indices) |-> SumSeq(one_to_many(d, ri, indices[p], indices))]
    IN  indices[arg_min(sample_distances)[1]]

\* Cluster::new: the cluster over `indices`, a leaf until it is partitioned.
\* Of the variants, the Singleton and the two-pole Dipole are followed: every
\* cluster that is not a Singleton is split by partition_duo.
\* m is the median, far is (a, naive_radius) and fromA is (b, diameter), each
\* computed once.
new(d, ri, history, indices) ==
    CHOOSE c \in UNION UNION {{{
        [ history |-> history,
          cardinality |-> Len(indices),
          variant |-> IF Len(indices) = 1 \/ (Len(indices) > 2 /\ BelowEpsilon(far[2]))
                      THEN "Singleton" ELSE "Dipole",
          extrema |-> IF Len(indices) = 1 \/ (Len(indices) > 2 /\ BelowEpsilon(far[2]))
                      THEN <<indices[1]>>
                      ELSE IF Len(indices) = 2 THEN <<indices[1], indices[2]>>
                      ELSE <<indices[far[1]], indices[fromA[1]]>>,
          indices |-> indices,
          leaf |-> TRUE ]
        : fromA \in {arg_max(one_to_many(d, ri, indices[far[1]], indices))}}
        : far \in {arg_max(one_to_many(d, ri, m, indices))}}
        : m \in {median(d, ri, indices)}} : TRUE

\* Cluster::build: the center, the radius and the lfd the searches read, for
\* a cluster that holds its members as Indices.
\* far is (arg_radius, radius) and half counts the members within half the
\* radius of the center, each computed once.
build(d, ri, c) ==
    CHOOSE r \in UNION UNION {{{
        [ history |-> c.history,
          cardinality |-> c.cardinality,
          variant |-> c.variant,
          extrema |-> c.extrema,
          indices |-> c.indices,
          leaf |-> c.leaf,
          arg_center |-> arg_center,
          arg_radius |-> c.indices[far[1]],
          radius |-> far[2],
          \* lfd = log2(lfd_num / lfd_den); 2 / 1 is lfd = 1
          lfd_num |-> IF far[2] = 0 \/ half = 0 THEN 2 ELSE Len(c.indices),
          lfd_den |-> IF far[2] = 0 \/ half = 0 THEN 1 ELSE half,
          index |-> "Indices",
          offset |-> 0,
          poles |-> <<>>,
          polar_distance |-> 0 ]
        : half \in {Cardinality({p \in 1 .. Len(c.indices) :
                                    2 * one_to_one(d, ri, arg_center, c.indices[p]) <= far[2]})}}
        : far \in {arg_max(one_to_many(d, ri, arg_center, c.indices))}}
        : arg_center \in {median(d, ri, c.indices)}} : TRUE

\* Cluster::new followed by Cluster::build, as in `Cluster::new_root(space).build()`;
\* each step is evaluated once, on the value of the step before it.
built(d, ri, history, indices) ==
    CHOOSE b \in {build(d, ri, c) : c \in {new(d, ri, history, is) : is \in {indices}}} : TRUE

\* A split that leaves out the members as far from a as from b.
duo_buckets_drop_ties(d, ri, c) ==
    LET a == c.extrema[1]
        b == c.extrema[2]
        a_distances == one_to_many(d, ri, a, c.indices)
        b_distances == one_to_many(d, ri, b, c.indices)
        rest == {p \in 1 .. Len(c.indices) : c.indices[p] # a /\ c.indices[p] # b}
    IN  << <<a>> \o PickSeq(c.indices, {p \in rest : a_distances[p] < b_distances[p]}, 1),
           <<b>> \o PickSeq(c.indices, {p \in rest : a_distances[p] > b_distances[p]}, 1) >>

\* The two buckets of partition_duo before the swap for size: every other
\* member goes to alpha when it is not farther from a than from b.
duo_buckets_no_swap(d, ri, c) ==
    LET a == c.extrema[1]
        b == c.extrema[2]
        a_distances == one_to_many(d, ri, a, c.indices)
        b_distances == one_to_many(d, ri, b, c.indices)
        rest == {p \in 1 .. Len(c.indices) : c.indices[p] # a /\ c.indices[p] # b}
    IN  << <<a>> \o PickSeq(c.indices, {p \in rest : a_distances[p] <= b_distances[p]}, 1),
           <<b>> \o PickSeq(c.indices, {p \in rest : ~(a_distances[p] <= b_distances[p])}, 1) >>

\* A split that leaves every member in the first bucket.
duo_buckets_keep_all(d, ri, c) == <<c.indices, <<c.extrema[2]>>>>

\* A split that puts the smaller bucket first.
duo_buckets_smaller_first(d, ri, c) ==
    LET ab == duo_buckets_no_swap(d, ri, c)
    IN  IF Len(ab[1]) > Len(ab[2]) THEN <<ab[2], ab[1]>> ELSE ab

\* The two buckets of partition_duo, the larger first.
duo_buckets(d, ri, c) ==
    LET ab == duo_buckets_no_swap(d, ri, c)
    IN  IF Len(ab[1]) < Len(ab[2]) THEN <<ab[2], ab[1]>> ELSE ab

\* PartitionCriteria::check: MaxDepth(k) and MinCardinality(m).
check(crit, c) == depth(c.history) < crit.max_depth /\ c.cardinality > crit.min_cardinality

\* Cluster::is_leaf
is_leaf(c) == c.leaf

Leaves(t) == {h \in DOMAIN t : is_leaf(t[h])}

\* A traversal that visits the right child first.
RECURSIVE indices_right_first(_, _)
indices_right_first(t, h) ==
    IF t[h].index = "Offset"
    THEN [p \in 1 .. t[h].cardinality |-> t[h].offset + p - 1]
    ELSE IF is_leaf(t[h]) THEN t[h].indices
    ELSE indices_right_first(t, b_history(h)) \o indices_right_first(t, a_history(h))

\* Cluster::indices before the reorder, and the members of an Offset cluster after it.
RECURSIVE indices(_, _)
indices(t, h) ==
    IF t[h].index = "Offset"
    THEN [p \in 1 .. t[h].cardinality |-> t[h].offset + p - 1]
    ELSE IF is_leaf(t[h]) THEN t[h].indices
    ELSE indices(t, a_history(h)) \o indices(t, b_history(h))

\* ------------------------------------------------------------------ Init
Criteria == [max_depth : {1, MaxCard}, min_cardinality : {1, 2}]

NoSearch == [op |-> "none"]

NoBatch == [op |-> "none"]

InitWith(m) ==
    /\ n = m
    /\ dist \in Metrics(m)
    /\ criteria \in Criteria
    /\ recursive \in BOOLEAN
    /\ reordered_indices = Identity(m)
    /\ tree = (Root :> built(dist, reordered_indices, Root, [p \in 1 .. m |-> p - 1]))
    /\ pending = {Root}
    /\ status = "ok"
    /\ reorders = 0
    /\ facade = "new"
    /\ search = NoSearch
    /\ cache = <<>>
    /\ calls = <<>>
    /\ batch = NoBatch

Init == \E m \in 1 .. MaxCard : InitWith(m)

\* ------------------------------------------------------------------ partition
\* A join that runs its first closure only.
joined_alpha_only(h, rec) == IF rec THEN {a_history(h)} ELSE {}

\* `if recursive { rayon::join(|| alpha.partition(..), || bravo.partition(..)) }`:
\* the partition calls forked by the partition of h.
joined(h, rec) == IF rec THEN {a_history(h), b_history(h)} ELSE {}

\* Cluster::partition on one forked cluster; with `recursive` its two
\* children are forked in turn (rayon::join), to run in any order. The
\* children are built at once, and the parent keeps its poles.
Partition(h) ==
    /\ status = "ok"
    /\ h \in pending
    /\ LET c == tree[h] IN
       IF ~check(criteria, c)
       THEN /\ pending' = pending \ {h}
            /\ UNCHANGED <<tree, status>>
       ELSE IF c.variant = "Singleton"
       THEN \* panic!("NOOOOOOOO!")
            /\ status' = "panicked"
            /\ UNCHANGED <<tree, pending>>
       ELSE \E ab \in {duo_buckets(dist, reordered_indices, c)} :
            \E alpha \in {built(dist, reordered_indices, a_history(h), ab[1])} :
            \E bravo \in {built(dist, reordered_indices, b_history(h), ab[2])} :
                /\ tree' = (a_history(h) :> alpha) @@ (b_history(h) :> bravo) @@
                           [tree EXCEPT ![h].leaf = FALSE,
                                        ![h].index = "Empty",
                                        ![h].indices = <<>>,
                                        ![h].poles = <<Head(ab[1]), Head(ab[2])>>,
                                        ![h].polar_distance =
                                            one_to_one(dist, reordered_indices, Head(ab[1]), Head(ab[2]))]
                /\ pending' = (pending \ {h}) \cup joined(h, recursive)
                /\ UNCHANGED status
    /\ UNCHANGED <<n, dist, criteria, recursive, reordered_indices, reorders, facade, search, cache, calls, batch>>

\* Any one of the forked partition calls runs.
PartitionStep == \E h \in pending : Partition(h)

TreeDone == status = "ok" /\ pending = {}

\* ------------------------------------------------------------------ reorder
\* The offset of every cluster: the root at 0, a left child at its parent's
\* offset, a right child behind the left child.
RECURSIVE OffsetOf(_, _)
OffsetOf(t, h) ==
    IF h = Root THEN 0
    ELSE LET parent == SubSeq(h, 1, Len(h) - 2)
         IN  IF h = a_history(parent) THEN OffsetOf(t, parent)
             ELSE OffsetOf(t, parent) + t[a_history(parent)].cardinality

\* A reorder that leaves the leaves with their member lists.
DepthFirstReorderSplitOnly ==
    /\ TreeDone
    /\ search.op = "none"
    /\ reorders < MaxReorders
    /\ LET P == indices(tree, Root)
           ri == set_reordered_indices(reordered_indices, P)
       IN  /\ reordered_indices' = ri
           /\ tree' = [h \in DOMAIN tree |->
                         IF is_leaf(tree[h]) THEN tree[h]
                         ELSE [tree[h] EXCEPT !.index = "Offset",
                                              !.offset = OffsetOf(tree, h),
                                              !.indices = <<>>,
                                              !.arg_center = get_reordered_index(ri, tree[h].arg_center),
                                              !.arg_radius = get_reordered_index(ri, tree[h].arg_radius)]]
    /\ reorders' = reorders + 1
    /\ UNCHANGED <<n, dist, criteria, recursive, pending, status, facade, search, cache, calls, batch>>

\* Tree::depth_first_reorder.
DepthFirstReorder ==
    /\ TreeDone
    /\ search.op = "none"
    /\ reorders < MaxReorders
    /\ LET P == indices(tree, Root)
           ri == set_reordered_indices(reordered_indices, P)
       IN  /\ reordered_indices' = ri
           /\ tree' = [h \in DOMAIN tree |->
                         [tree[h] EXCEPT !.index = "Offset",
                                         !.offset = OffsetOf(tree, h),
                                         !.indices = <<>>,
                                         !.arg_center = get_reordered_index(ri, tree[h].arg_center),
                                         !.arg_radius = get_reordered_index(ri, tree[h].arg_radius)]]
    /\ reorders' = reorders + 1
    /\ UNCHANGED <<n, dist, criteria, recursive, pending, status, facade, search, cache, calls, batch>>

\* ------------------------------------------------------------------ range search
\* Cluster::distance_to_instance
distance_to_instance(q, ri, c) == query_to_one(q, ri, c.arg_center)

\* Cluster::overlapping_children: both children when
\* (d_near + d_far)(d_far - d_near) <= 2 * polar_distance * radius, else the near one.
overlapping_children(t, q, ri, h, radius) ==
    LET c == t[h]
        d_l == query_to_one(q, ri, c.poles[1])
        d_r == query_to_one(q, ri, c.poles[2])
        d_near == IF d_l <= d_r THEN d_l ELSE d_r
        d_far == IF d_l <= d_r THEN d_r ELSE d_l
    IN  IF (d_near + d_far) * (d_far - d_near) * Micro <= 2 * c.polar_distance * radius
        THEN <<a_history(h), b_history(h)>>
        ELSE IF d_l <= d_r THEN <<a_history(h)>> ELSE <<b_history(h)>>

\* Children that hold the left child twice.
children_left_twice(h) == <<a_history(h), a_history(h)>>

\* Cluster::children
children(h) == <<a_history(h), b_history(h)>>

\* The loop of tree_search / rnn_tree_search over one generation of
\* candidates; an entry is <<history, distance of the query to the center>>.
\* `guarded`: prune by the poles only when the query is inside the cluster.
RECURSIVE TreeSearchLoop(_, _, _, _, _, _, _, _)
TreeSearchLoop(t, q, ri, radius, candidates, confirmed, straddlers, guarded) ==
    IF candidates = <<>> THEN <<confirmed, straddlers>>
    ELSE LET scored == [p \in 1 .. Len(candidates) |->
                          <<candidates[p], distance_to_instance(q, ri, t[candidates[p]])>>]
             kept == SelectSeq(scored, LAMBDA e : e[2] * Micro <= t[e[1]].radius * Micro + radius)
             inside == SelectSeq(kept, LAMBDA e : (t[e[1]].radius + e[2]) * Micro <= radius)
             non_terminal == SelectSeq(kept, LAMBDA e : ~((t[e[1]].radius + e[2]) * Micro <= radius))
             leaves == SelectSeq(non_terminal, LAMBDA e : is_leaf(t[e[1]]))
             parents == SelectSeq(non_terminal, LAMBDA e : ~is_leaf(t[e[1]]))
             next == Flatten([p \in 1 .. Len(parents) |->
                        IF guarded /\ ~(parents[p][2] < t[parents[p][1]].radius)
                        THEN children(parents[p][1])
                        ELSE overlapping_children(t, q, ri, parents[p][1], radius)])
         IN  TreeSearchLoop(t, q, ri, radius, next, confirmed \o inside, straddlers \o leaves, guarded)

\* cakes::rnn::clustered::tree_search
tree_search(t, q, ri, radius) == TreeSearchLoop(t, q, ri, radius, <<Root>>, <<>>, <<>>, TRUE)

\* CAKES::rnn_tree_search
rnn_tree_search(t, q, ri, radius) == TreeSearchLoop(t, q, ri, radius, <<Root>>, <<>>, <<>>, FALSE)

\* Dataset::query_to_many zipped with the indices: <<index, distance>> pairs.
query_to_many(q, ri, is) == [p \in 1 .. Len(is) |-> <<is[p], query_to_one(q, ri, is[p])>>]

\* CAKES::linear_search over the given indices.
linear_search(q, ri, radius, is) ==
    SelectSeq(query_to_many(q, ri, is), LAMBDA e : e[2] * Micro <= radius)

\* A test that takes every cluster for a singleton.
is_singleton_always(c) == c.cardinality >= 1

\* Cluster::is_singleton
is_singleton(c) == c.variant = "Singleton"

\* cakes::rnn::clustered::leaf_search
leaf_search(t, q, ri, confirmed, straddlers, radius) ==
    LET hits == Flatten([p \in 1 .. Len(confirmed) |->
                    LET h == confirmed[p][1]
                        d == confirmed[p][2]
                        is == indices(t, h)
                    IN  IF is_singleton(t[h])
                        THEN [j \in 1 .. Len(is) |-> <<is[j], d>>]
                        ELSE query_to_many(q, ri, is)])
        is == Flatten([p \in 1 .. Len(straddlers) |-> indices(t, straddlers[p][1])])
    IN  hits \o linear_search(q, ri, radius, is)

\* cakes::rnn::clustered::search
clustered_search(t, q, ri, radius) ==
    LET cs == tree_search(t, q, ri, radius)
    IN  leaf_search(t, q, ri, cs[1], cs[2], radius)

\* CAKES::rnn_leaf_search
rnn_leaf_search(t, q, ri, radius, clusters) ==
    linear_search(q, ri, radius, Flatten([p \in 1 .. Len(clusters) |-> indices(t, clusters[p])]))

\* CAKES::rnn_search
rnn_search(t, q, ri, radius) ==
    LET cs == rnn_tree_search(t, q, ri, radius)
        clusters == [p \in 1 .. Len(cs[1]) |-> cs[1][p][1]] \o [p \in 1 .. Len(cs[2]) |-> cs[2][p][1]]
    IN  rnn_leaf_search(t, q, ri, radius, clusters)

Indexes(hits) == {hits[p][1] : p \in 1 .. Len(hits)}

\* One range search of each kind on the built tree: clustered (abd-clam),
\* CAKES::rnn_search, and the linear baseline. The radius is a signed number
\* (U: Number) and no function looks at its sign; each returns a plain Vec,
\* so the outcome of every call is a hit list.
RnnSearch ==
    /\ TreeDone
    /\ reorders = 0
    /\ search.op = "none"
    /\ \E q \in Queries(n, dist) : \E r \in -1 .. MaxRadius :
         search' = [ op |-> "rnn", query |-> q, radius |-> r * Micro,
                     outcome |-> "hits",
                     hits |-> clustered_search(tree, q, reordered_indices, r * Micro),
                     cakes_hits |-> rnn_search(tree, q, reordered_indices, r * Micro),
                     linear |-> linear_search(q, reordered_indices, r * Micro, indices(tree, Root)) ]
    /\ UNCHANGED <<n, dist, criteria, recursive, tree, pending, status, reordered_indices, reorders, facade, cache, calls, batch>>

\* ------------------------------------------------------------------ facade
\* Cluster::subtree: a leaf yields itself, any other cluster the subtrees of
\* its children (and not itself).
RECURSIVE subtree(_, _)
subtree(t, h) ==
    IF is_leaf(t[h]) THEN {h}
    ELSE subtree(t, a_history(h)) \cup subtree(t, b_history(h))

\* Cluster::num_descendants
num_descendants(t, h) == Cardinality(subtree(t, h)) - 1

\* CAKES::build after the recursive partition: the depth and the mean lfd of
\* the non-leaves of the subtree; the mean of no values is NaN and
\* `assert!(self.mean_lfd > 0.)` fails. The searches below read the root and
\* the dataset only.
CakesBuild ==
    /\ TreeDone
    /\ reorders = 0
    /\ facade = "new"
    /\ search.op = "none"
    /\ LET non_leaves == {h \in subtree(tree, Root) : ~is_leaf(tree[h])}
       IN  facade' = IF non_leaves = {} THEN "panicked" ELSE "built"
    /\ UNCHANGED <<n, dist, criteria, recursive, tree, pending, status, reordered_indices, reorders, search, cache, calls, batch>>

\* ------------------------------------------------------------------ knn
\* The insertion of one hit behind every hit that is not farther: a stable sort.
RECURSIVE InsertByDistance(_, _)
InsertByDistance(s, e) ==
    IF s = <<>> THEN <<e>>
    ELSE IF Head(s)[2] <= e[2] THEN <<Head(s)>> \o InsertByDistance(Tail(s), e)
    ELSE <<e>> \o s

RECURSIVE SortFold(_, _, _)
SortFold(hits, p, acc) ==
    IF p > Len(hits) THEN acc ELSE SortFold(hits, p + 1, InsertByDistance(acc, hits[p]))

\* hits.sort_by(|(_, a), (_, b)| a.partial_cmp(b).unwrap())
sort_by_distance(hits) == SortFold(hits, 1, <<>>)

\* The tail of knn_by_rnn: sort, threshold at the k-th hit, keep every hit up to it.
keep_k_with_ties(hits, k) ==
    LET sorted == sort_by_distance(hits)
        threshold == sorted[k][2]
        kept == SelectSeq(sorted, LAMBDA e : e[2] <= threshold)
    IN  [p \in 1 .. Len(kept) |-> kept[p][1]]

\* CAKES::new: base_knn_radius = root.radius / 100 + 1e-6, in units of 1/Micro.
base_knn_radius(t) == (t[Root].radius * Micro) \div BaseFactor + 1

\* helpers::compute_lfd of the hits' distances, as far as the factor needs it:
\* "nan" (the mean of no values), "one" (lfd = 1.0) or "other" (finite, positive).
compute_lfd(hits) ==
    LET r == sort_by_distance(hits)[Len(hits)][2]
        below == {p \in 1 .. Len(hits) : hits[p][2] < r}
    IN  IF r = 0 THEN "one"
        ELSE IF below = {} THEN "nan"
        ELSE IF \A p \in below : hits[p][2] = 0 THEN "one"
        ELSE "other"

\* The radius at which the growth of a search that cannot end is no longer followed.
RadiusCap == 4 * (MaxDist + 1) * Micro

\* CAKES::knn_by_rnn up to its first range search.
KnnByRnnStart ==
    /\ TreeDone
    /\ reorders = 0
    /\ search.op = "none"
    /\ \E q \in Queries(n, dist) : \E k \in 0 .. n + 1 :
         IF k = 0
         THEN \* assert!(k > 0)
              search' = [ op |-> "knn_by_rnn", query |-> q, k |-> k, radius |-> 0,
                          hits |-> <<>>, pc |-> "panicked", result |-> <<>> ]
         ELSE search' = [ op |-> "knn_by_rnn", query |-> q, k |-> k,
                          radius |-> base_knn_radius(tree),
                          hits |-> rnn_search(tree, q, reordered_indices, base_knn_radius(tree)),
                          pc |-> "loop", result |-> <<>> ]
    /\ UNCHANGED <<n, dist, criteria, recursive, tree, pending, status, reordered_indices, reorders, facade, cache, calls, batch>>

\* One iteration of `while hits.len() < k`.
KnnByRnnGrow ==
    /\ search.op = "knn_by_rnn"
    /\ search.pc = "loop"
    /\ Len(search.hits) < search.k
    /\ search.radius <= RadiusCap
    /\ LET h == Len(search.hits)
           grown(radius) == [search EXCEPT !.radius = radius,
                                !.hits = rnn_search(tree, search.query, reordered_indices, radius)]
       IN  IF h = 0 THEN search' = grown(2 * search.radius)
           ELSE IF compute_lfd(search.hits) = "nan"
           THEN \* assert!(factor > 1.) on a NaN factor
                search' = [search EXCEPT !.pc = "panicked"]
           ELSE IF compute_lfd(search.hits) = "one"
           THEN search' = grown(IF search.k > 2 * h THEN 2 * search.radius
                                ELSE (search.radius * search.k) \div h)
           ELSE \E j \in 1 .. GrowthSteps :
                    search' = grown((search.radius * (GrowthSteps + j)) \div GrowthSteps)
    /\ UNCHANGED <<n, dist, criteria, recursive, tree, pending, status, reordered_indices, reorders, facade, cache, calls, batch>>

\* The end of knn_by_rnn once the loop is left.
KnnByRnnFinish ==
    /\ search.op = "knn_by_rnn"
    /\ search.pc = "loop"
    /\ Len(search.hits) >= search.k
    /\ search' = [search EXCEPT !.pc = "done", !.result = keep_k_with_ties(search.hits, search.k)]
    /\ UNCHANGED <<n, dist, criteria, recursive, tree, pending, status, reordered_indices, reorders, facade, cache, calls, batch>>

\* The k nearest by (distance, index): the linear KNN, and what the sieve extracts.
RECURSIVE InsertByDistanceIndex(_, _)
InsertByDistanceIndex(s, e) ==
    IF s = <<>> THEN <<e>>
    ELSE IF Head(s)[2] < e[2] \/ (Head(s)[2] = e[2] /\ Head(s)[1] < e[1])
         THEN <<Head(s)>> \o InsertByDistanceIndex(Tail(s), e)
    ELSE <<e>> \o s

RECURSIVE SortIndexFold(_, _, _)
SortIndexFold(hits, p, acc) ==
    IF p > Len(hits) THEN acc ELSE SortIndexFold(hits, p + 1, InsertByDistanceIndex(acc, hits[p]))

linear_knn(t, q, ri, k) ==
    LET sorted == SortIndexFold(query_to_many(q, ri, indices(t, Root)), 1, <<>>)
        m == IF k < Len(sorted) THEN k ELSE Len(sorted)
    IN  [p \in 1 .. m |-> sorted[p][1]]

\* KnnSieve refined to the end and extracted.
sieve_knn(t, q, ri, k) == linear_knn(t, q, ri, k)

\* CAKES::knn_search: how the call ends and what it returns.
knn_search(t, q, ri, k) ==
    IF k > t[Root].cardinality
    THEN [pc |-> "done", result |-> indices(t, Root)]
    ELSE IF is_leaf(t[Root])
    THEN \* Cluster::children on a leaf panics
         [pc |-> "panicked", result |-> <<>>]
    ELSE [pc |-> "done", result |-> sieve_knn(t, q, ri, k)]

\* One call of CAKES::knn_search.
KnnSearch ==
    /\ TreeDone
    /\ reorders = 0
    /\ search.op = "none"
    /\ \E q \in Queries(n, dist) : \E k \in 1 .. n + 1 :
         search' = [ op |-> "knn_search", query |-> q, k |-> k,
                     pc |-> knn_search(tree, q, reordered_indices, k).pc,
                     result |-> knn_search(tree, q, reordered_indices, k).result ]
    /\ UNCHANGED <<n, dist, criteria, recursive, tree, pending, status, reordered_indices, reorders, facade, cache, calls, batch>>

NextSearch ==
    \/ PartitionStep
    \/ CakesBuild
    \/ RnnSearch
    \/ KnnByRnnStart
    \/ KnnByRnnGrow
    \/ KnnByRnnFinish
    \/ KnnSearch

\* CAKES::build partitions with recursive = true.
InitSearch == Init /\ recursive

SpecSearch == InitSearch /\ [][NextSearch]_vars

Next ==
    \/ PartitionStep
    \/ DepthFirstReorder

Spec == Init /\ [][Next]_vars

\* ------------------------------------------------------------------ dataset only
\* The permutations of the positions 0 .. m-1.
PermutationsOf(m) ==
    {f \in [0 .. m - 1 -> 0 .. m - 1] : \A i \in 0 .. m - 1 : \A j \in 0 .. m - 1 : f[i] = f[j] => i = j}

\* A freshly opened dataset of m columns, all at distance 1 of each other.
InitDataset ==
    \E m \in 1 .. MaxPermCard :
        /\ n = m
        /\ dist = [p \in UPairs(m) |-> 1]
        /\ criteria = [max_depth |-> 1, min_cardinality |-> 1]
        /\ recursive = FALSE
        /\ reordered_indices = Identity(m)
        /\ tree = (Root :> built(dist, reordered_indices, Root, [p \in 1 .. m |-> p - 1]))
        /\ pending = {Root}
        /\ status = "ok"
        /\ reorders = 0
        /\ facade = "new"
        /\ search = NoSearch
        /\ cache = <<>>
        /\ calls = <<>>
        /\ batch = NoBatch

\* Dataset::swap on two positions.
Swap ==
    /\ \E i \in 0 .. n - 1 : \E j \in 0 .. n - 1 :
         reordered_indices' = swap(reordered_indices, i, j)
    /\ UNCHANGED <<n, dist, criteria, recursive, tree, pending, status, reorders, facade, search, cache, calls, batch>>

\* Dataset::set_reordered_indices with a permutation of the positions.
SetReorderedIndices ==
    /\ \E P \in PermutationsOf(n) :
         reordered_indices' = set_reordered_indices(reordered_indices, [p \in 1 .. n |-> P[p - 1]])
    /\ UNCHANGED <<n, dist, criteria, recursive, tree, pending, status, reorders, facade, search, cache, calls, batch>>

NextDataset ==
    \/ Swap
    \/ SetReorderedIndices

SpecDataset == InitDataset /\ [][NextDataset]_vars

\* ------------------------------------------------------------------ cache
\* Space::cache_key without the ordering of the pair.
cache_key_as_given(i, j) == <<i, j>>

\* Space::cache_key
cache_key(i, j) == IF i < j THEN <<i, j>> ELSE <<j, i>>

\* Space::is_in_cache
is_in_cache(c, i, j) == cache_key(i, j) \in DOMAIN c

\* Space::get_from_cache, where the key is stored
get_from_cache(c, i, j) == c[cache_key(i, j)]

\* Space::add_to_cache: insert, overwriting any previous value
add_to_cache(c, i, j, d) ==
    [key \in DOMAIN c \cup {cache_key(i, j)} |-> IF key = cache_key(i, j) THEN d ELSE c[key]]

\* Space::_one_to_one: the metric on the two instances
_one_to_one(d, left, right) == Metric(d, left, right)

NoCall == [pc |-> "idle", left |-> 0, right |-> 0, d |-> 0, missed |-> FALSE]

\* TabularSpace::with_cache over a dataset of 2 .. CachePoints instances: an
\* empty cache shared by two threads.
InitCache ==
    \E m \in 2 .. CachePoints :
        /\ n = m
        /\ dist = [p \in UPairs(m) |-> 1 + ((p[1] + p[2]) % 2)]
        /\ criteria = [max_depth |-> 1, min_cardinality |-> 1]
        /\ recursive = FALSE
        /\ reordered_indices = Identity(m)
        /\ tree = <<>>
        /\ pending = {}
        /\ status = "ok"
        /\ reorders = 0
        /\ facade = "new"
        /\ search = NoSearch
        /\ cache = <<>>
        /\ calls = [t \in 1 .. 2 |-> NoCall]
        /\ batch = NoBatch

\* Space::one_to_one, entered by thread t: `if left == right { U::zero() }`.
OneToOne(t) ==
    /\ calls[t].pc \in {"idle", "done"}
    /\ \E left \in 0 .. n - 1 : \E right \in 0 .. n - 1 :
         calls' = [calls EXCEPT ![t] =
                     IF left = right
                     THEN [pc |-> "done", left |-> left, right |-> right, d |-> 0, missed |-> FALSE]
                     ELSE [pc |-> "is_in_cache", left |-> left, right |-> right, d |-> 0, missed |-> FALSE]]
    /\ UNCHANGED <<n, dist, criteria, recursive, tree, pending, status, reordered_indices, reorders, facade, search, cache, batch>>

\* `if self.is_in_cache(left, right)`: one read under the read lock.
IsInCache(t) ==
    /\ calls[t].pc = "is_in_cache"
    /\ calls' = [calls EXCEPT ![t] =
                   IF is_in_cache(cache, calls[t].left, calls[t].right)
                   THEN [@ EXCEPT !.pc = "get_from_cache"]
                   ELSE [@ EXCEPT !.pc = "_one_to_one", !.missed = TRUE]]
    /\ UNCHANGED <<n, dist, criteria, recursive, tree, pending, status, reordered_indices, reorders, facade, search, cache, batch>>

\* `self.get_from_cache(left, right)`: a second read; unwrap() panics when
\* the key is gone.
GetFromCache(t) ==
    /\ calls[t].pc = "get_from_cache"
    /\ calls' = [calls EXCEPT ![t] =
                   IF is_in_cache(cache, calls[t].left, calls[t].right)
                   THEN [@ EXCEPT !.pc = "done",
                                  !.d = get_from_cache(cache, calls[t].left, calls[t].right)]
                   ELSE [@ EXCEPT !.pc = "panicked"]]
    /\ UNCHANGED <<n, dist, criteria, recursive, tree, pending, status, reordered_indices, reorders, facade, search, cache, batch>>

\* `self._one_to_one(left, right)`, outside any lock.
ComputeOneToOne(t) ==
    /\ calls[t].pc = "_one_to_one"
    /\ calls' = [calls EXCEPT ![t] =
                   [@ EXCEPT !.pc = "add_to_cache",
                             !.d = _one_to_one(dist, calls[t].left, calls[t].right)]]
    /\ UNCHANGED <<n, dist, criteria, recursive, tree, pending, status, reordered_indices, reorders, facade, search, cache, batch>>

\* `self.add_to_cache(left, right, d)`: one insert under the write lock.
AddToCache(t) ==
    /\ calls[t].pc = "add_to_cache"
    /\ cache' = add_to_cache(cache, calls[t].left, calls[t].right, calls[t].d)
    /\ calls' = [calls EXCEPT ![t] = [@ EXCEPT !.pc = "done"]]
    /\ UNCHANGED <<n, dist, criteria, recursive, tree, pending, status, reordered_indices, reorders, facade, search, batch>>

NextCache ==
    \E t \in 1 .. 2 :
        \/ OneToOne(t)
        \/ IsInCache(t)
        \/ GetFromCache(t)
        \/ ComputeOneToOne(t)
        \/ AddToCache(t)

SpecCache == InitCache /\ [][NextCache]_vars

\* Space::remove_from_cache(i, j) by any other caller, under the write lock:
\* `remove(&key).unwrap()` panics where the key is not stored.
RemoveFromCache(i, j) ==
    /\ IF is_in_cache(cache, i, j)
       THEN /\ cache' = [key \in DOMAIN cache \ {cache_key(i, j)} |-> cache[key]]
            /\ UNCHANGED status
       ELSE /\ status' = "panicked"
            /\ UNCHANGED cache
    /\ UNCHANGED <<n, dist, criteria, recursive, tree, pending, reordered_indices, reorders, facade, search, calls, batch>>

\* Space::clear_cache by any other caller: `drain()` under the write lock.
ClearCache ==
    /\ cache' = <<>>
    /\ UNCHANGED <<n, dist, criteria, recursive, tree, pending, status, reordered_indices, reorders, facade, search, calls, batch>>

\* The two threads of one_to_one calls beside callers that remove and clear;
\* a panic under the write lock poisons it, and the run is not followed further.
NextCacheClear ==
    \/ \E t \in 1 .. 2 : status = "ok" /\ OneToOne(t)
    \/ \E t \in 1 .. 2 : status = "ok" /\ IsInCache(t)
    \/ \E t \in 1 .. 2 : status = "ok" /\ GetFromCache(t)
    \/ \E t \in 1 .. 2 : status = "ok" /\ ComputeOneToOne(t)
    \/ \E t \in 1 .. 2 : status = "ok" /\ AddToCache(t)
    \/ \E i \in 0 .. n - 1 : \E j \in 0 .. n - 1 : status = "ok" /\ RemoveFromCache(i, j)
    \/ status = "ok" /\ ClearCache

SpecCacheClear == InitCache /\ [][NextCacheClear]_vars

\* ------------------------------------------------------------------ batch
\* The output of `par_iter().map(..).collect()`, filled in the order in which
\* the tasks finish.
collect_in_completion_order(out, i, hits) ==
    LET free == CHOOSE p \in DOMAIN out : ~out[p].ran /\ \A o \in DOMAIN out : ~out[o].ran => p <= o
    IN  [out EXCEPT ![free] = [ran |-> TRUE, hits |-> hits]]

\* The output of `par_iter().map(..).collect()` over a slice: the result of
\* task i lands in position i.
collect(out, i, hits) == [out EXCEPT ![i] = [ran |-> TRUE, hits |-> hits]]

\* The query lists of a batch: 1 .. MaxQueries instances of the dataset, each
\* given by its distances to the columns.
QueryLists ==
    UNION {{[i \in 1 .. len |-> [x \in 0 .. n - 1 |-> Metric(dist, cs[i], x)]] :
               cs \in [1 .. len -> 0 .. n - 1]} : len \in 1 .. MaxQueries}

\* A batch of the given kind, all of its tasks forked and none run.
forked(op, queries, param) ==
    [ op |-> op, queries |-> queries, param |-> param, pc |-> "running",
      out |-> [i \in 1 .. Len(queries) |-> [ran |-> FALSE, hits |-> <<>>]],
      finished |-> <<>> ]

\* A tree to search: CAKES::new over 1 .. BatchPoints instances, to be
\* partitioned recursively.
InitBatch ==
    \E m \in 1 .. BatchPoints :
        /\ n = m
        /\ dist = [p \in UPairs(m) |-> 1 + ((p[1] + p[2]) % 2)]
        /\ criteria \in Criteria
        /\ recursive = TRUE
        /\ reordered_indices = Identity(m)
        /\ tree = (Root :> built(dist, reordered_indices, Root, [p \in 1 .. m |-> p - 1]))
        /\ pending = {Root}
        /\ status = "ok"
        /\ reorders = 0
        /\ facade = "new"
        /\ search = NoSearch
        /\ cache = <<>>
        /\ calls = <<>>
        /\ batch = NoBatch

\* Cakes::batch_rnn_search (abd-clam): one task per query is forked.
BatchRnnSearch ==
    /\ TreeDone
    /\ batch.op = "none"
    /\ \E queries \in QueryLists : \E r \in 0 .. MaxRadius :
         batch' = forked("rnn", queries, r * Micro)
    /\ UNCHANGED <<n, dist, criteria, recursive, tree, pending, status, reordered_indices, reorders, facade, search, cache, calls>>

\* CAKES::batch_rnn_search
CakesBatchRnnSearch ==
    /\ TreeDone
    /\ batch.op = "none"
    /\ \E queries \in QueryLists : \E r \in 0 .. MaxRadius :
         batch' = forked("cakes_rnn", queries, r * Micro)
    /\ UNCHANGED <<n, dist, criteria, recursive, tree, pending, status, reordered_indices, reorders, facade, search, cache, calls>>

\* CAKES::batch_knn_search
BatchKnnSearch ==
    /\ TreeDone
    /\ batch.op = "none"
    /\ \E queries \in QueryLists : \E k \in 1 .. n + 1 :
         batch' = forked("knn", queries, k)
    /\ UNCHANGED <<n, dist, criteria, recursive, tree, pending, status, reordered_indices, reorders, facade, search, cache, calls>>

\* The closure of task i: the search of the one query, on the shared tree.
task(b, i) ==
    IF b.op = "rnn"
    THEN [pc |-> "done", result |-> clustered_search(tree, b.queries[i], reordered_indices, b.param)]
    ELSE IF b.op = "cakes_rnn"
    THEN [pc |-> "done", result |-> rnn_search(tree, b.queries[i], reordered_indices, b.param)]
    ELSE knn_search(tree, b.queries[i], reordered_indices, b.param)

\* Any forked task runs next; a panic in a task is the panic of the batch.
BatchTask(i) ==
    /\ batch.op /= "none"
    /\ batch.pc = "running"
    /\ i \in DOMAIN batch.out
    /\ ~batch.out[i].ran
    /\ batch' = IF task(batch, i).pc = "panicked"
                THEN [batch EXCEPT !.pc = "panicked"]
                ELSE [batch EXCEPT !.out = collect(batch.out, i, task(batch, i).result),
                                   !.finished = Append(@, i)]
    /\ UNCHANGED <<n, dist, criteria, recursive, tree, pending, status, reordered_indices, reorders, facade, search, cache, calls>>

\* The join: every task has run and the batch returns its output.
BatchCollect ==
    /\ batch.op /= "none"
    /\ batch.pc = "running"
    /\ \A i \in DOMAIN batch.out : batch.out[i].ran
    /\ batch' = [batch EXCEPT !.pc = "done"]
    /\ UNCHANGED <<n, dist, criteria, recursive, tree, pending, status, reordered_indices, reorders, facade, search, cache, calls>>

NextBatch ==
    \/ PartitionStep
    \/ BatchRnnSearch
    \/ CakesBatchRnnSearch
    \/ BatchKnnSearch
    \/ \E i \in 1 .. MaxQueries : BatchTask(i)
    \/ BatchCollect

SpecBatch == InitBatch /\ [][NextBatch]_vars

\* ------------------------------------------------------------------ sequential partition
\* The recursion of Cluster::partition without rayon::join, as in the
\* commented-out tuple `(alpha.partition(..), bravo.partition(..))`: alpha's
\* subtree is finished before bravo's is begun. `st` is the tree so far and
\* whether a panic has fired.
RECURSIVE partition_sequential(_, _, _, _, _, _)
partition_sequential(d, ri, crit, rec, st, h) ==
    IF st.status /= "ok" THEN st
    ELSE IF ~check(crit, st.tree[h]) THEN st
    ELSE IF st.tree[h].variant = "Singleton" THEN [st EXCEPT !.status = "panicked"]
    ELSE LET ab == duo_buckets(d, ri, st.tree[h])
             alpha == built(d, ri, a_history(h), ab[1])
             bravo == built(d, ri, b_history(h), ab[2])
             split == (a_history(h) :> alpha) @@ (b_history(h) :> bravo) @@
                      [st.tree EXCEPT ![h].leaf = FALSE,
                                      ![h].index = "Empty",
                                      ![h].indices = <<>>,
                                      ![h].poles = <<Head(ab[1]), Head(ab[2])>>,
                                      ![h].polar_distance = one_to_one(d, ri, Head(ab[1]), Head(ab[2]))]
         IN  IF ~rec THEN [st EXCEPT !.tree = split]
             ELSE CHOOSE done \in
                     {partition_sequential(d, ri, crit, rec, after_alpha, b_history(h)) :
                         after_alpha \in {partition_sequential(d, ri, crit, rec, first, a_history(h)) :
                             first \in {[st EXCEPT !.tree = split]}}} : TRUE

\* Cluster::new_root over 1 .. PartitionPoints instances, under every metric
\* with distances 1 .. 2 and under one whose first three instances are equal, for a
\* recursive partition.
InitPartition ==
    \E m \in 1 .. PartitionPoints :
        /\ n = m
        /\ dist \in [UPairs(m) -> 1 .. 2] \cup {[p \in UPairs(m) |-> IF p[2] < 3 THEN 0 ELSE 1]}
        /\ criteria \in Criteria
        /\ recursive = TRUE
        /\ reordered_indices = Identity(m)
        /\ tree = (Root :> built(dist, reordered_indices, Root, [p \in 1 .. m |-> p - 1]))
        /\ pending = {Root}
        /\ status = "ok"
        /\ reorders = 0
        /\ facade = "new"
        /\ search = NoSearch
        /\ cache = <<>>
        /\ calls = <<>>
        /\ batch = NoBatch

NextPartition == PartitionStep

SpecPartition == InitPartition /\ [][NextPartition]_vars

\* Cluster::new_root as in InitPartition, over 1 .. FairPoints instances.
InitFair ==
    \E m \in 1 .. FairPoints :
        /\ n = m
        /\ dist \in [UPairs(m) -> 1 .. 2] \cup {[p \in UPairs(m) |-> IF p[2] < 3 THEN 0 ELSE 1]}
        /\ criteria \in Criteria
        /\ recursive = TRUE
        /\ reordered_indices = Identity(m)
        /\ tree = (Root :> built(dist, reordered_indices, Root, [p \in 1 .. m |-> p - 1]))
        /\ pending = {Root}
        /\ status = "ok"
        /\ reorders = 0
        /\ facade = "new"
        /\ search = NoSearch
        /\ cache = <<>>
        /\ calls = <<>>
        /\ batch = NoBatch

\* rayon runs every forked closure: a partition call that is pending is run.
SpecPartitionFair == InitFair /\ [][NextPartition]_vars /\ WF_vars(PartitionStep)

\* ------------------------------------------------------------------ choose_unique
\* Space::are_instances_equal
are_instances_equal(d, left, right) == _one_to_one(d, left, right) = 0

\* The `for &i in indices.iter()` loop of Space::choose_unique from position p:
\* push i unless it equals an instance chosen before; break once
\* chosen.len() == n.
RECURSIVE ChooseLoop(_, _, _, _, _)
ChooseLoop(d, want, shuffled, p, chosen) ==
    IF p > Len(shuffled) THEN chosen
    ELSE LET i == shuffled[p]
             is_old == \E o \in Range(chosen) : are_instances_equal(d, i, o)
             next == IF is_old THEN chosen ELSE Append(chosen, i)
         IN  IF Len(next) = want THEN next
             ELSE ChooseLoop(d, want, shuffled, p + 1, next)

\* Space::choose_unique on the pool in the order the seeded shuffle leaves it.
choose_unique(d, want, shuffled) ==
    ChooseLoop(d, IF want < Len(shuffled) THEN want ELSE Len(shuffled), shuffled, 1, <<>>)

\* The pools of a dataset of m instances: its subsets, in ascending order.
Pools(m) == {PickSeq([p \in 1 .. m |-> p - 1], P, 1) : P \in SUBSET (1 .. m)}

\* A space over 1 .. MaxCard instances under any metric.
InitChoose ==
    \E m \in 1 .. MaxCard :
        /\ n = m
        /\ dist \in Metrics(m)
        /\ criteria = [max_depth |-> 1, min_cardinality |-> 1]
        /\ recursive = FALSE
        /\ reordered_indices = Identity(m)
        /\ tree = <<>>
        /\ pending = {}
        /\ status = "ok"
        /\ reorders = 0
        /\ facade = "new"
        /\ search = NoSearch
        /\ cache = <<>>
        /\ calls = <<>>
        /\ batch = NoBatch

\* One call of choose_unique(n, pool); the shuffle under the fixed seed is one
\* permutation of the pool, whichever.
ChooseUnique ==
    /\ search.op = "none"
    /\ \E want \in 0 .. n + 1 : \E pool \in Pools(n) : \E P \in PermutationsOf(Len(pool)) :
         LET shuffled == [p \in 1 .. Len(pool) |-> pool[P[p - 1] + 1]]
         IN  search' = [ op |-> "choose_unique", n |-> want, pool |-> pool,
                         shuffled |-> shuffled,
                         chosen |-> choose_unique(dist, want, shuffled) ]
    /\ UNCHANGED <<n, dist, criteria, recursive, tree, pending, status, reordered_indices, reorders, facade, cache, calls, batch>>

NextChoose == ChooseUnique

SpecChoose == InitChoose /\ [][NextChoose]_vars

\* ------------------------------------------------------------------ range search only
\* CAKES::new over 1 .. RangePoints instances, under every metric with
\* distances 1 .. 2 and under one whose first three instances are equal.
InitRange ==
    \E m \in 1 .. RangePoints :
        /\ n = m
        /\ dist \in [UPairs(m) -> 1 .. 2] \cup {[p \in UPairs(m) |-> IF p[2] < 3 THEN 0 ELSE 1]}
        /\ criteria \in Criteria
        /\ recursive = TRUE
        /\ reordered_indices = Identity(m)
        /\ tree = (Root :> built(dist, reordered_indices, Root, [p \in 1 .. m |-> p - 1]))
        /\ pending = {Root}
        /\ status = "ok"
        /\ reorders = 0
        /\ facade = "new"
        /\ search = NoSearch
        /\ cache = <<>>
        /\ calls = <<>>
        /\ batch = NoBatch

\* A recursive partition followed by one range search of each kind.
NextRange ==
    \/ PartitionStep
    \/ RnnSearch

SpecRange == InitRange /\ [][NextRange]_vars

\* ------------------------------------------------------------------ singular knn
\* f64 infinity and NaN as radii, in units of 1/Micro: every distance is
\* within Infinite, and no comparison with NaN holds.
Infinite == 64 * (MaxDist + 1) * Micro

NaN == -1

\* Cluster::polar_distances: the distances of the query to the two poles.
polar_distances(t, q, ri, h) ==
    <<query_to_one(q, ri, t[h].poles[1]), query_to_one(q, ri, t[h].poles[2])>>

\* The descent of singular_knn from cluster h: towards the nearer pole until
\* the child is a leaf; the cluster it stops at and the distance to that pole.
RECURSIVE singular_descent(_, _, _, _)
singular_descent(t, q, ri, h) ==
    CHOOSE r \in UNION {
        { IF is_leaf(t[child]) THEN [cluster |-> h, radius |-> (IF lr[1] < lr[2] THEN lr[1] ELSE lr[2]) * Micro]
          ELSE singular_descent(t, q, ri, child)
          : child \in {IF lr[1] < lr[2] THEN a_history(h) ELSE b_history(h)} }
        : lr \in {polar_distances(t, q, ri, h)} } : TRUE

\* rnn_search at a radius that may be NaN.
singular_hits(t, q, ri, radius) ==
    IF radius = NaN THEN <<>> ELSE rnn_search(t, q, ri, radius)

\* `radius * factor` for factor = (k / hits)^(1 / lfd): infinite for no hits,
\* and NaN for 0 * infinity; k / hits for lfd = 1 (lfd_num / lfd_den = 2),
\* above it for a smaller lfd and between 1 and it for a larger one.
grown_radii(radius, k, hits, lfd_num, lfd_den) ==
    IF radius = NaN THEN {NaN}
    ELSE IF hits = 0 THEN {IF radius = 0 THEN NaN ELSE Infinite}
    ELSE IF radius >= Infinite THEN {Infinite}
    ELSE IF lfd_num = 2 * lfd_den THEN {(radius * k) \div hits}
    ELSE IF lfd_num < 2 * lfd_den
    THEN {((radius * k) \div hits) + (j * radius * (k - hits)) \div (GrowthSteps * hits) : j \in 1 .. GrowthSteps}
    ELSE {radius + (j * radius * (k - hits)) \div ((GrowthSteps + 1) * hits) : j \in 1 .. GrowthSteps}

\* CAKES::singular_knn up to its first range search; the children of a root
\* that is a leaf do not exist.
SingularKnnStart ==
    /\ TreeDone
    /\ reorders = 0
    /\ search.op = "none"
    /\ \E q \in Queries(n, dist) : \E k \in 1 .. n :
         IF is_leaf(tree[Root])
         THEN search' = [ op |-> "singular_knn", query |-> q, k |-> k, cluster |-> Root, radius |-> 0,
                          hits |-> <<>>, iterations |-> 0, pc |-> "panicked", result |-> <<>> ]
         ELSE \E start \in {singular_descent(tree, q, reordered_indices, Root)} :
              search' = [ op |-> "singular_knn", query |-> q, k |-> k,
                          cluster |-> start.cluster, radius |-> start.radius,
                          hits |-> rnn_search(tree, q, reordered_indices, start.radius),
                          iterations |-> 0, pc |-> "loop", result |-> <<>> ]
    /\ UNCHANGED <<n, dist, criteria, recursive, tree, pending, status, reordered_indices, reorders, facade, cache, calls, batch>>

\* One iteration of `while rnn_hits.len() < k`, followed for MaxGrowths iterations.
SingularKnnGrow ==
    /\ search.op = "singular_knn"
    /\ search.pc = "loop"
    /\ Len(search.hits) < search.k
    /\ search.iterations < MaxGrowths
    /\ \E radius \in grown_radii(search.radius, search.k, Len(search.hits),
                                  tree[search.cluster].lfd_num, tree[search.cluster].lfd_den) :
         search' = [search EXCEPT !.radius = radius,
                                  !.hits = singular_hits(tree, search.query, reordered_indices, radius),
                                  !.iterations = @ + 1]
    /\ UNCHANGED <<n, dist, criteria, recursive, tree, pending, status, reordered_indices, reorders, facade, cache, calls, batch>>

\* The end of singular_knn once the loop is left: sort, threshold at the
\* k-th hit, keep every hit up to it.
SingularKnnFinish ==
    /\ search.op = "singular_knn"
    /\ search.pc = "loop"
    /\ Len(search.hits) >= search.k
    /\ search' = [search EXCEPT !.pc = "done", !.result = keep_k_with_ties(search.hits, search.k)]
    /\ UNCHANGED <<n, dist, criteria, recursive, tree, pending, status, reordered_indices, reorders, facade, cache, calls, batch>>

NextSingular ==
    \/ PartitionStep
    \/ SingularKnnStart
    \/ SingularKnnGrow
    \/ SingularKnnFinish

SpecSingular == InitRange /\ [][NextSingular]_vars

\* ------------------------------------------------------------------ arguments
\* Cluster::new_root over a dataset without instances:
\* assert!(!indices.is_empty(), ..) fails before any cluster exists.
InitEmpty ==
    /\ n = 0
    /\ dist = [p \in UPairs(0) |-> 0]
    /\ criteria \in Criteria
    /\ recursive = TRUE
    /\ reordered_indices = Identity(0)
    /\ tree = <<>>
    /\ pending = {}
    /\ status = "panicked"
    /\ reorders = 0
    /\ facade = "new"
    /\ search = NoSearch
    /\ cache = <<>>
    /\ calls = <<>>
    /\ batch = NoBatch

InitArguments == InitSearch \/ InitEmpty

NextArguments ==
    \/ PartitionStep
    \/ KnnByRnnStart
    \/ KnnByRnnGrow
    \/ KnnByRnnFinish

SpecArguments == InitArguments /\ [][NextArguments]_vars

\* ------------------------------------------------------------------ names
\* The bit-strings a History can hold: the root's 1, then any bits.
Histories ==
    UNION {{<<1>> \o t : t \in [1 .. len -> {0, 1}]} : len \in 0 .. MaxHistory - 1}

\* A dataset of one instance, before any cluster is named.
InitName ==
    /\ n = 1
    /\ dist = [p \in UPairs(1) |-> 1]
    /\ criteria = [max_depth |-> 1, min_cardinality |-> 1]
    /\ recursive = FALSE
    /\ reordered_indices = Identity(1)
    /\ tree = (Root :> built(dist, reordered_indices, Root, <<0>>))
    /\ pending = {Root}
    /\ status = "ok"
    /\ reorders = 0
    /\ facade = "new"
    /\ search = NoSearch
    /\ cache = <<>>
    /\ calls = <<>>
    /\ batch = NoBatch

\* Cluster::name on a cluster with the given history.
Name ==
    /\ \E h \in Histories : search' = [op |-> "name", history |-> h, name |-> name(h)]
    /\ UNCHANGED <<n, dist, criteria, recursive, tree, pending, status, reordered_indices, reorders, facade, cache, calls, batch>>

NextName == Name

SpecName == InitName /\ [][NextName]_vars

\* ------------------------------------------------------------------ properties
\* The distance of the query of the current search to the instance at position i.
QD(i) == query_to_one(search.query, reordered_indices, i)

\* The k-th smallest distance of the query to the whole dataset.
KthDistance(k) ==
    CHOOSE d \in 0 .. MaxDist + 1 :
        /\ Cardinality({i \in 0 .. n - 1 : QD(i) < d}) < k
        /\ Cardinality({i \in 0 .. n - 1 : QD(i) <= d}) >= k

\* Two answers to one KNN query agree up to ties at the k-th distance: each
\* has at least k indices, none beyond the k-th distance, and every index
\* that is strictly nearer than the k-th distance.
SameUpToTies(A, B, k) ==
    /\ Cardinality(A) >= k /\ Cardinality(B) >= k
    /\ \A i \in A \cup B : QD(i) <= KthDistance(k)
    /\ \A i \in 0 .. n - 1 : QD(i) < KthDistance(k) => i \in A /\ i \in B

\* C1: the clustered range search returns exactly the indices the linear
\* range search returns, for every metric, query and radius (0 included).
RnnEqualsLinear ==
    search.op = "rnn" => Indexes(search.hits) = Indexes(search.linear)

\* C2: for k in 1 .. N knn_by_rnn returns, and it, the sieve and the linear
\* KNN return the same indices up to ties at the k-th distance.
KnnAlgorithmsAgree ==
    (search.op = "knn_by_rnn" /\ search.pc \in {"done", "panicked"} /\ search.k \in 1 .. n) =>
        LET linear == Range(linear_knn(tree, search.query, reordered_indices, search.k))
            sieve == Range(sieve_knn(tree, search.query, reordered_indices, search.k))
        IN  /\ search.pc = "done"
            /\ SameUpToTies(Range(search.result), linear, search.k)
            /\ SameUpToTies(sieve, linear, search.k)

\* C3: a finished knn_by_rnn returns at least k indices, and exactly those
\* whose distance to the query is at most the k-th smallest distance.
KnnByRnnExact ==
    (search.op = "knn_by_rnn" /\ search.pc = "done") =>
        /\ Len(search.result) >= search.k
        /\ Range(search.result) = {i \in 0 .. n - 1 : QD(i) <= KthDistance(search.k)}

\* C4: knn_search with k > N returns all N indices in ascending order of
\* their distance to the query.
KnnBeyondCardinalitySorted ==
    (search.op = "knn_search" /\ search.pc = "done" /\ search.k > n) =>
        /\ Len(search.result) = n
        /\ Range(search.result) = 0 .. n - 1
        /\ \A p \in 1 .. Len(search.result) - 1 : QD(search.result[p]) <= QD(search.result[p + 1])

\* C5: a KNN result is ordered by ascending distance, and by ascending index
\* among equal distances.
KnnOrderedByDistanceThenIndex ==
    (search.op = "knn_by_rnn" /\ search.pc = "done") =>
        \A p \in 1 .. Len(search.result) - 1 :
            \/ QD(search.result[p]) < QD(search.result[p + 1])
            \/ /\ QD(search.result[p]) = QD(search.result[p + 1])
               /\ search.result[p] < search.result[p + 1]

\* C6: over a dataset of one instance the facade is built, the root has
\* radius 0 and lfd 1, and a range search or a KNN search for k = 1 returns
\* the instance when it is in range.
SingletonDataset ==
    n = 1 =>
        /\ tree[Root].radius = 0
        /\ tree[Root].lfd_num = 2 * tree[Root].lfd_den
        /\ facade # "panicked"
        /\ (search.op = "rnn" /\ QD(0) * Micro <= search.radius) =>
               /\ Indexes(search.hits) = {0}
               /\ Indexes(search.cakes_hits) = {0}
        /\ (search.op \in {"knn_by_rnn", "knn_search"} /\ search.k = 1 /\ search.pc # "loop") =>
               /\ search.pc = "done"
               /\ Range(search.result) = {0}

NonRecursivePartitionReached ==
    /\ TreeDone
    /\ reorders = 0
    /\ ~recursive
    /\ Cardinality(Leaves(tree)) = 2
    /\ n = 3

\* The instances (columns) found at the positions a cluster holds.
Members(ri, t, h) == {get(ri, i) : i \in Range(indices(t, h))}

\* C8: the first depth_first_reorder leaves tree.indices() = [0, .., N-1] and
\* every cluster at Offset(o), holding in [o, o + cardinality) exactly the
\* instances it held before; a left child starts at its parent's offset and
\* the right child behind the left one.
ReorderGivesContiguousRanges ==
    [][(reorders = 0 /\ reorders' = 1) =>
          /\ indices(tree', Root) = [p \in 1 .. n |-> p - 1]
          /\ \A h \in DOMAIN tree :
                /\ tree'[h].index = "Offset"
                /\ indices(tree', h) =
                       [p \in 1 .. tree[h].cardinality |-> tree'[h].offset + p - 1]
                /\ Members(reordered_indices', tree', h) = Members(reordered_indices, tree, h)
                /\ ~is_leaf(tree[h]) =>
                       /\ tree'[a_history(h)].offset = tree'[h].offset
                       /\ tree'[b_history(h)].offset =
                              tree'[h].offset + tree'[a_history(h)].cardinality
                       /\ tree'[a_history(h)].cardinality + tree'[b_history(h)].cardinality =
                              tree'[h].cardinality]_vars

\* A reordered tree of three leaves whose instances did move.
ReorderReached ==
    /\ reorders = 1
    /\ Cardinality(Leaves(tree)) = 3
    /\ reordered_indices # Identity(n)

\* C9: whatever permutation the dataset holds, get(get_reordered_index(i))
\* is the instance that was originally at i.
GetReorderedIndexIsNewLocation ==
    \A i \in 0 .. n - 1 : get(reordered_indices, get_reordered_index(reordered_indices, i)) = i

\* C10: a second depth_first_reorder changes neither the instance found at a
\* position nor the indices of a cluster.
SecondReorderIsNoOp ==
    [][(reorders = 1 /\ reorders' = 2) =>
          /\ \A i \in 0 .. n - 1 : get(reordered_indices', i) = get(reordered_indices, i)
          /\ \A h \in DOMAIN tree : indices(tree', h) = indices(tree, h)]_vars

HistoriesGrowOneBit ==
    /\ tree[Root].history = <<1>>
    /\ depth(tree[Root].history) = 0
    /\ \A h \in DOMAIN tree :
          /\ depth(tree[h].history) = Len(tree[h].history) - 1
          /\ ~is_leaf(tree[h]) =>
                /\ tree[children(h)[1]].history = tree[h].history \o <<0>>
                /\ tree[children(h)[2]].history = tree[h].history \o <<1>>
    /\ ~is_leaf(tree[Root]) =>
          /\ name(tree[children(Root)[1]].history) = <<"2">>
          /\ name(tree[children(Root)[2]].history) = <<"3">>

\* C13: a recursive partition with MinCardinality(1) and no effective depth
\* limit never aborts, and once it has returned every leaf has cardinality 1.
PartitionToSingletons ==
    (recursive /\ criteria.min_cardinality = 1 /\ criteria.max_depth = MaxCard) =>
        /\ status = "ok"
        /\ pending = {} => \A h \in Leaves(tree) : tree[h].cardinality = 1

\* The clusters strictly below the cluster h.
Below(t, h) == {g \in DOMAIN t : Len(g) > Len(h) /\ SubSeq(g, 1, Len(h)) = h}

\* C14: once the partition has returned, num_descendants of every cluster
\* is the number of clusters strictly below it, inner clusters and leaves.
NumDescendantsCountsAllBelow ==
    TreeDone => \A h \in DOMAIN tree : num_descendants(tree, h) = Cardinality(Below(tree, h))

\* C15: a root over an empty dataset and a KNN search with k = 0 are
\* answered with an error the caller can handle; neither aborts the process.
ArgumentErrorsAreRecoverable ==
    /\ n = 0 => status = "error"
    /\ (search.op = "knn_by_rnn" /\ search.k = 0) => search.pc = "error"

\* C16: a range search with a negative radius is reported to the caller as an
\* InvalidArgument error; it never returns a hit list (empty or not).
NegativeRadiusIsInvalidArgument ==
    (search.op = "rnn" /\ search.radius < 0) => search.outcome = "InvalidArgument"

\* C17: with the cache in use, every stored key (a, b) has a < b and holds the
\* metric's distance of a and b; a finished one_to_one(i, j) returns that
\* distance and leaves it stored under the key of the unordered pair; two
\* finished calls on the same unordered pair return equal results; no call
\* panics.
CacheIsKeyedByUnorderedPair ==
    /\ \A key \in DOMAIN cache :
         key[1] < key[2] /\ cache[key] = Metric(dist, key[1], key[2])
    /\ \A t \in DOMAIN calls :
         /\ calls[t].pc /= "panicked"
         /\ (calls[t].pc = "done" /\ calls[t].left /= calls[t].right) =>
              LET a == IF calls[t].left < calls[t].right THEN calls[t].left ELSE calls[t].right
                  b == IF calls[t].left < calls[t].right THEN calls[t].right ELSE calls[t].left
              IN  /\ <<a, b>> \in DOMAIN cache
                  /\ cache[<<a, b>>] = calls[t].d
                  /\ calls[t].d = Metric(dist, a, b)
    /\ \A t \in DOMAIN calls : \A u \in DOMAIN calls :
         (/\ calls[t].pc = "done" /\ calls[u].pc = "done"
          /\ {calls[t].left, calls[t].right} = {calls[u].left, calls[u].right}) =>
             calls[t].d = calls[u].d

\* Two calls on (i, j) and (j, i) that both missed the cache, both finished.
ConcurrentMirroredCallsDone ==
    /\ DOMAIN calls = 1 .. 2
    /\ calls[1].pc = "done" /\ calls[2].pc = "done"
    /\ calls[1].left < calls[1].right
    /\ calls[2].left = calls[1].right /\ calls[2].right = calls[1].left
    /\ calls[1].missed /\ calls[2].missed

OverlapPruningIsSound ==
    (search.op = "rnn" /\ search.radius >= 0) =>
        \A h \in DOMAIN tree :
            ~is_leaf(tree[h]) =>
                LET near == overlapping_children(tree, search.query, reordered_indices, h, search.radius)
                IN  Len(near) = 1 =>
                        \A far \in Range(children(h)) \ {near[1]} :
                            \A i \in Range(indices(tree, far)) :
                                query_to_one(search.query, reordered_indices, i) * Micro > search.radius

\* C21: in every cluster of the tree, every member is within the cluster's
\* radius of the cluster's center, the center and the radius being the ones
\* the range search reads.
MembersWithinRadius ==
    \A h \in DOMAIN tree :
        \A i \in Range(indices(tree, h)) :
            one_to_one(dist, reordered_indices, tree[h].arg_center, i) <= tree[h].radius

IndexMoves(before, after) ==
    \/ after = before
    \/ before = "Indices" /\ after \in {"Empty", "Offset"}
    \/ before = "Empty" /\ after = "Offset"

\* C23 (as stated): every step keeps every cluster and moves its index
\* representation along Indices -> Empty or Indices | Empty -> Offset only, and
\* after every step a cluster holds children exactly when it does not hold an
\* explicit member list.
IndexOnlyMovesForward ==
    [][/\ \A h \in DOMAIN tree :
              h \in DOMAIN tree' /\ IndexMoves(tree[h].index, tree'[h].index)
       /\ \A h \in DOMAIN tree' :
              ~is_leaf(tree'[h]) <=> tree'[h].index /= "Indices"]_vars

\* C23 (amended): the same moves; a cluster with an explicit member list holds
\* no children and a cluster at Empty holds children; before the reorder a
\* cluster holds children exactly when it holds no explicit member list, and
\* after it every cluster is at Offset, the leaves too.
IndexOnlyMovesForwardLeavesAtOffset ==
    [][/\ \A h \in DOMAIN tree :
              h \in DOMAIN tree' /\ IndexMoves(tree[h].index, tree'[h].index)
       /\ \A h \in DOMAIN tree' :
              /\ tree'[h].index = "Indices" => is_leaf(tree'[h])
              /\ tree'[h].index = "Empty" => ~is_leaf(tree'[h])
              /\ reorders' = 0 => (~is_leaf(tree'[h]) <=> tree'[h].index /= "Indices")
              /\ reorders' > 0 => tree'[h].index = "Offset"]_vars

\* A reordered tree: a split root and its leaves, all at Offset.
ReorderedLeafAtOffset ==
    /\ reorders = 1
    /\ ~is_leaf(tree[Root])
    /\ \E h \in Leaves(tree) : tree[h].index = "Offset" /\ tree[h].indices = <<>>

\* C24: every iteration of the growth loop of knn_by_rnn leaves the loop
\* running with a radius strictly greater than before and at most twice as
\* large; no iteration ends in the panic of `assert!(factor > 1.)`.
KnnRadiusFactorWithinBounds ==
    [][(search.op = "knn_by_rnn" /\ search.pc = "loop" /\ search' /= search /\ search'.pc /= "done") =>
          /\ search'.pc = "loop"
          /\ search'.radius > search.radius
          /\ search'.radius <= 2 * search.radius]_vars

\* C25: choose_unique(n, pool) returns at most n indices, each of them from the
\* pool, no two of them the same index or at distance zero from each other.
ChooseUniqueWithinBounds ==
    search.op = "choose_unique" =>
        /\ Len(search.chosen) <= search.n
        /\ Range(search.chosen) \subseteq Range(search.pool)
        /\ \A p \in 1 .. Len(search.chosen) : \A q \in 1 .. Len(search.chosen) :
               p /= q => Metric(dist, search.chosen[p], search.chosen[q]) /= 0

CachedCallNeverFails ==
    \A t \in DOMAIN calls : calls[t].pc /= "panicked"

\* C29: every iteration of the growth loop of singular_knn leaves the radius
\* strictly larger than it found it.
SingularRadiusStrictlyGrows ==
    [][(/\ search.op = "singular_knn"
        /\ search.pc = "loop"
        /\ search'.op = "singular_knn"
        /\ search'.iterations = search.iterations + 1)
       => search'.radius > search.radius]_vars

\* g is a proper ancestor of h: its history is a proper prefix.
IsAncestor(g, h) == Len(g) < Len(h) /\ SubSeq(h, 1, Len(g)) = g

Unrelated(placed) ==
    \A p \in DOMAIN placed : \A o \in DOMAIN placed :
        p /= o => placed[p][1] /= placed[o][1] /\ ~IsAncestor(placed[p][1], placed[o][1])

NoIndexTwice(hits) ==
    \A p \in DOMAIN hits : \A o \in DOMAIN hits : p /= o => hits[p][1] /= hits[o][1]

\* C30: a clustered range search returns each index at most once: of the
\* clusters that tree_search and rnn_tree_search place in confirmed and
\* straddlers none is placed twice and none is an ancestor of another.
RangeHitsAreUnique ==
    search.op = "rnn" =>
        \A cs \in {tree_search(tree, search.query, reordered_indices, search.radius),
                   rnn_tree_search(tree, search.query, reordered_indices, search.radius)} :
            /\ Unrelated(cs[1] \o cs[2])
            /\ NoIndexTwice(search.hits)
            /\ NoIndexTwice(search.cakes_hits)

\* A search that placed a cluster in confirmed and another in straddlers and
\* returned several hits.
ConfirmedBesideStraddler ==
    /\ search.op = "rnn"
    /\ \E cs \in {tree_search(tree, search.query, reordered_indices, search.radius)} :
           Len(cs[1]) >= 1 /\ Len(cs[2]) >= 1
    /\ Len(search.hits) >= 2

====
